---- MODULE Spec2Model ----
(***************************************************************************)
(* Model of the HTTP bridge (src/mcp_bridge.py): the global child-process  *)
(* handle mcp_process, the global request_id_counter, start_mcp_server     *)
(* (spawn + handshake) and send_mcp_request (one request line out, one     *)
(* response line in), run as coroutines of one asyncio event loop, against *)
(* a child process that is an arbitrary line-writing environment.          *)
(***************************************************************************)
EXTENDS Integers, Sequences, FiniteSets, TLC

\* ------------------------------------------------------------------ bounds
NumCalls == 2        \* concurrent send_mcp_request invocations
MaxStray == 1        \* lines a child writes that answer no request
MaxOut   == 2        \* unread lines held by a child's stdout pipe

Callers == 1..NumCalls

\* --------------------------------------------------------------- constants
None   == 0          \* Python None for mcp_process / no running task
InitId == 1          \* "id": 1 of init_request

VARIABLES
  mcp_process,         \* global handle: None or the index of a child in procs
  request_id_counter,  \* global counter
  procs,               \* every child ever spawned by Popen, in spawn order
  pc,                  \* position of each invocation of send_mcp_request
  running,             \* the coroutine the event loop is executing, or None
  method,              \* argument `method` of each invocation
  myid,                \* request["id"] of each invocation (0: none built yet)
  resp,                \* response_str read by each invocation
  ret,                 \* value returned by each invocation
  wire,                \* history: every write attempted on a child's stdin
  reads,               \* history: every readline() on a child's stdout
  returned,            \* history: invocations in the order they returned
  lifespan,            \* position of the lifespan context manager of the app
  ts,                  \* the tool server: configuration, files, working directory
  out                  \* the last tool / HTTP operation and what it answered

bridgeVars == <<mcp_process, request_id_counter, procs, pc, running, method,
                myid, resp, ret, wire, reads, returned, lifespan>>
toolVars   == <<ts, out>>
vars       == <<bridgeVars, toolVars>>

\* ------------------------------------------------------------------- lines
\* A line of the child's stdout as readline() returns it.  kind "json" is a
\* line json.loads accepts (id = 0: the object has no "id" key), "garbage" a
\* non-JSON text line, "blank" the string "\n", "eof" the string "".
Line(k, i, r) == [kind |-> k, id |-> i, hasResult |-> r]
EofLine     == Line("eof", 0, FALSE)
BlankLine   == Line("blank", 0, FALSE)
GarbageLine == Line("garbage", 0, FALSE)
NotifLine   == Line("json", 0, FALSE)
NoLine      == Line("none", 0, FALSE)
StrayLines  == {NotifLine, GarbageLine, BlankLine}

\* `if response:` / `if response_str:` -- truthiness of a Python str
Truthy(line) == line.kind # "eof"

\* json.loads(line) returns (TRUE) or raises JSONDecodeError (FALSE)
JsonLoads(line) == line.kind = "json"

\* `"result" in init_response`
HasResult(line) == line.hasResult

Methods == {"tools/list", "tools/call"}

\* ----------------------------------------------------------------- results
Ret(k, m, l) == [kind |-> k, msg |-> m, line |-> l]
NoRet        == Ret("none", "", NoLine)
StartFailed  == Ret("error", "Failed to start MCP server", NoLine)
NoResponse   == Ret("error", "No response from MCP server", NoLine)
StderrError  == Ret("error", "MCP server error", NoLine)
CommError    == Ret("error", "Error communicating with MCP server", NoLine)
InvalidJson(l) == Ret("error", "Invalid JSON response", l)
Parsed(l)    == Ret("json", "", l)

\* ----------------------------------------------------------- child process
NewChild(held, live) ==
  [status |-> "running", stdin |-> <<>>, stdout |-> <<>>, stderr |-> 0,
   strays |-> 0, handshook |-> FALSE, failed |-> FALSE, signalled |-> FALSE,
   heldAtSpawn |-> held, liveAtSpawn |-> live]

Children == 1..Len(procs)
Live     == {k \in Children : procs[k].status # "exited"}

\* readline() on a pipe returns once a line is buffered or the writer closed
CanReadline(k) == procs[k].stdout # <<>> \/ procs[k].status = "exited"
Readline(k)    == IF procs[k].stdout # <<>> THEN Head(procs[k].stdout) ELSE EofLine
AfterReadline(k) ==
  IF procs[k].stdout # <<>>
  THEN [procs EXCEPT ![k].stdout = Tail(@)]
  ELSE procs

\* stdin.write + flush raises BrokenPipeError once the child has exited
WriteRaises(k) == procs[k].status = "exited"

\* ------------------------------------------------------------- event loop
\* Positions of send_mcp_request at which the coroutine yields to the event
\* loop.  Every pipe operation is a blocking call, not an await.
AwaitPointsAsyncRead == {"read"}
AwaitPoints == {}

CanStep(c)      == running = c \/ (running = None /\ pc[c] # "done")
NextRunning(c, p) == IF p = "done" \/ p \in AwaitPoints THEN None ELSE c

\* `if mcp_process is None:` (lines 227 and 307)
NeedsStartAlways(h) == TRUE
NeedsStart(h) == h = None

BridgeInit ==
  /\ lifespan = "serving"
  /\ mcp_process = None
  /\ request_id_counter = 0
  /\ procs = <<>>
  /\ pc = [c \in Callers |-> "pending"]
  /\ running = None
  /\ method = [c \in Callers |-> ""]
  /\ myid = [c \in Callers |-> 0]
  /\ resp = [c \in Callers |-> NoLine]
  /\ ret = [c \in Callers |-> NoRet]
  /\ wire = <<>>
  /\ reads = <<>>
  /\ returned = <<>>


\* ------------------------------------------------------- control transfer
Return(c, r) ==
  /\ pc' = [pc EXCEPT ![c] = "done"]
  /\ ret' = [ret EXCEPT ![c] = r]
  /\ returned' = Append(returned, c)
  /\ running' = NextRunning(c, "done")

Goto(c, p) ==
  /\ pc' = [pc EXCEPT ![c] = p]
  /\ running' = NextRunning(c, p)
  /\ UNCHANGED <<ret, returned>>

\* send_mcp_request, lines 341-349: an empty read returns the error to the
\* caller; nothing is sent again.
OnNoResponseRetry(c, r) == Goto(c, "send")
OnNoResponse(c, r) == Return(c, r)

\* one attempted stdin.write(...) + flush() on child k
WireEntry(k, c, m, i) ==
  [child |-> k, caller |-> c, method |-> m, id |-> i,
   delivered |-> ~WriteRaises(k),
   ready |-> procs[k].handshook, afterFail |-> procs[k].failed]

Request(m, i) == [method |-> m, id |-> i]

\* ------------------------------------------------------- send_mcp_request
\* Entry of send_mcp_request: lines 303-313, with line 227 of the callee.
BeginAllocFirst(c, m) ==
  /\ UNCHANGED <<lifespan, toolVars>>
  /\ pc[c] = "pending"
  /\ lifespan = "serving"
  /\ CanStep(c)
  /\ method' = [method EXCEPT ![c] = m]
  /\ request_id_counter' = request_id_counter + 1
  /\ myid' = [myid EXCEPT ![c] = request_id_counter + 1]
  /\ Goto(c, IF NeedsStart(mcp_process) THEN "popen" ELSE "send")
  /\ UNCHANGED <<mcp_process, procs, resp, wire, reads>>

Begin(c, m) ==
  /\ UNCHANGED <<lifespan, toolVars>>
  /\ pc[c] = "pending"
  /\ lifespan = "serving"
  /\ CanStep(c)
  /\ method' = [method EXCEPT ![c] = m]
  /\ Goto(c, IF NeedsStart(mcp_process) THEN "popen" ELSE "send")
  /\ UNCHANGED <<mcp_process, request_id_counter, procs, myid, resp, wire, reads>>

\* start_mcp_server, lines 229-238: subprocess.Popen returns a child or
\* raises; the except clause of line 296 returns False, and line 310 returns
\* the start-up error.
Popen(c, ok) ==
  /\ UNCHANGED <<lifespan, toolVars>>
  /\ pc[c] = "popen"
  /\ CanStep(c)
  /\ IF ok
     THEN /\ procs' = Append(procs, NewChild(mcp_process, Cardinality(Live)))
          /\ mcp_process' = Len(procs) + 1
          /\ Goto(c, "init_write")
     ELSE /\ Return(c, StartFailed)
          /\ UNCHANGED <<procs, mcp_process>>
  /\ UNCHANGED <<request_id_counter, method, myid, resp, wire, reads>>

\* start_mcp_server, lines 243-260: the initialize request, "id": 1.
InitWrite(c) ==
  /\ UNCHANGED <<lifespan, toolVars>>
  /\ pc[c] = "init_write"
  /\ CanStep(c)
  /\ LET k == mcp_process IN
     /\ wire' = Append(wire, WireEntry(k, c, "initialize", InitId))
     /\ IF WriteRaises(k)
        THEN /\ Return(c, StartFailed)
             /\ UNCHANGED procs
        ELSE /\ procs' = [procs EXCEPT ![k].stdin = Append(@, Request("initialize", InitId))]
             /\ Goto(c, "init_read")
  /\ UNCHANGED <<mcp_process, request_id_counter, method, myid, resp, reads>>

\* start_mcp_server, lines 262-294: one readline(), then the validation.
InitRead(c) ==
  /\ UNCHANGED <<lifespan, toolVars>>
  /\ pc[c] = "init_read"
  /\ CanStep(c)
  /\ LET k == mcp_process
         line == Readline(k)
         rest == AfterReadline(k)
     IN
     /\ CanReadline(k)
     /\ reads' = Append(reads, [caller |-> c, child |-> k, op |-> "initialize", line |-> line])
     /\ IF Truthy(line)
        THEN /\ procs' = rest
             /\ IF JsonLoads(line) /\ HasResult(line)
                THEN Goto(c, "notif_write")
                ELSE Return(c, StartFailed)
        ELSE \* line 291: stderr.readline() of a child whose stdout is closed
             /\ procs' = [rest EXCEPT ![k].stderr = IF @ > 0 THEN @ - 1 ELSE 0]
             /\ Return(c, StartFailed)
  /\ UNCHANGED <<mcp_process, request_id_counter, method, myid, resp, wire>>

\* start_mcp_server, lines 272-280 and 301: the initialized notification.
NotifWrite(c) ==
  /\ UNCHANGED <<lifespan, toolVars>>
  /\ pc[c] = "notif_write"
  /\ CanStep(c)
  /\ LET k == mcp_process IN
     /\ wire' = Append(wire, WireEntry(k, c, "notifications/initialized", 0))
     /\ IF WriteRaises(k)
        THEN /\ Return(c, StartFailed)
             /\ UNCHANGED procs
        ELSE /\ procs' = [procs EXCEPT
                            ![k].stdin = Append(@, Request("notifications/initialized", 0)),
                            ![k].handshook = TRUE]
             /\ Goto(c, "send")
  /\ UNCHANGED <<mcp_process, request_id_counter, method, myid, resp, reads>>

\* send_mcp_request, lines 315-328 and 351-354: allocate the id, write the
\* request line.
SendRequest(c) ==
  /\ UNCHANGED <<lifespan, toolVars>>
  /\ pc[c] = "send"
  /\ CanStep(c)
  /\ LET k == mcp_process
         i == request_id_counter + 1
     IN
     /\ request_id_counter' = i
     /\ myid' = [myid EXCEPT ![c] = i]
     /\ wire' = Append(wire, WireEntry(k, c, method[c], i))
     /\ IF WriteRaises(k)
        THEN /\ Return(c, CommError)
             /\ procs' = [procs EXCEPT ![k].failed = TRUE]
        ELSE /\ procs' = [procs EXCEPT ![k].stdin = Append(@, Request(method[c], i))]
             /\ Goto(c, "read")
  /\ UNCHANGED <<mcp_process, method, resp, reads>>

\* send_mcp_request, lines 330-349: one readline(), then the classification.
ReadResponse(c) ==
  /\ UNCHANGED <<lifespan, toolVars>>
  /\ pc[c] = "read"
  /\ CanStep(c)
  /\ LET k == mcp_process
         line == Readline(k)
         rest == AfterReadline(k)
     IN
     /\ CanReadline(k)
     /\ reads' = Append(reads, [caller |-> c, child |-> k, op |-> "call", line |-> line])
     /\ resp' = [resp EXCEPT ![c] = line]
     /\ IF Truthy(line)
        THEN /\ procs' = rest
             /\ Return(c, IF JsonLoads(line) THEN Parsed(line) ELSE InvalidJson(line))
        ELSE /\ procs' = [rest EXCEPT ![k].failed = TRUE,
                                      ![k].stderr = IF @ > 0 THEN @ - 1 ELSE 0]
             /\ OnNoResponse(c, IF procs[k].stderr > 0 THEN StderrError ELSE NoResponse)
  /\ UNCHANGED <<mcp_process, request_id_counter, method, myid, wire>>

\* ------------------------------------------------------ the child process
\* The child takes the next request line from its stdin; a request with an
\* id is answered by one line echoing the id, with a result or an error.
ChildServe(k, r) ==
  /\ UNCHANGED <<lifespan, toolVars>>
  /\ procs[k].status = "running"
  /\ procs[k].stdin # <<>>
  /\ LET req == Head(procs[k].stdin) IN
     IF req.id = 0
     THEN /\ r
          /\ procs' = [procs EXCEPT ![k].stdin = Tail(@)]
     ELSE /\ Len(procs[k].stdout) < MaxOut
          /\ procs' = [procs EXCEPT ![k].stdin = Tail(@),
                                    ![k].stdout = Append(@, Line("json", req.id, r))]
  /\ UNCHANGED <<mcp_process, request_id_counter, pc, running, method, myid,
                 resp, ret, wire, reads, returned>>

\* The child writes a line that answers no request: a notification, a log
\* line, an empty line.
ChildStray(k, line) ==
  /\ UNCHANGED <<lifespan, toolVars>>
  /\ procs[k].status = "running"
  /\ procs[k].strays < MaxStray
  /\ Len(procs[k].stdout) < MaxOut
  /\ procs' = [procs EXCEPT ![k].stdout = Append(@, line), ![k].strays = @ + 1]
  /\ UNCHANGED <<mcp_process, request_id_counter, pc, running, method, myid,
                 resp, ret, wire, reads, returned>>

\* The child stops writing for good (deadlock, endless render).
ChildHang(k) ==
  /\ UNCHANGED <<lifespan, toolVars>>
  /\ procs[k].status = "running"
  /\ procs' = [procs EXCEPT ![k].status = "hung"]
  /\ UNCHANGED <<mcp_process, request_id_counter, pc, running, method, myid,
                 resp, ret, wire, reads, returned>>

\* The child exits, closing its pipes, after e lines on its stderr.
ChildExit(k, e) ==
  /\ UNCHANGED <<lifespan, toolVars>>
  /\ procs[k].status # "exited"
  /\ procs' = [procs EXCEPT ![k].status = "exited", ![k].stderr = @ + e]
  /\ UNCHANGED <<mcp_process, request_id_counter, pc, running, method, myid,
                 resp, ret, wire, reads, returned>>

\* -------------------------------------------------------------- lifespan
\* lifespan, lines 25-28: after the yield, `if mcp_process:` and terminate().
\* The shutdown code runs on the event loop, so no invocation is running.
ShutdownTerminate ==
  /\ lifespan = "serving"
  /\ running = None
  /\ IF mcp_process # None
     THEN /\ procs' = [procs EXCEPT ![mcp_process].signalled = TRUE]
          /\ lifespan' = "waiting"
     ELSE /\ lifespan' = "stopped"
          /\ UNCHANGED procs
  /\ UNCHANGED <<mcp_process, request_id_counter, pc, running, method, myid,
                 resp, ret, wire, reads, returned, toolVars>>

\* lifespan, line 29: wait() returns once the child has exited.
ShutdownWait ==
  /\ lifespan = "waiting"
  /\ procs[mcp_process].status = "exited"
  /\ lifespan' = "stopped"
  /\ UNCHANGED <<mcp_process, request_id_counter, procs, pc, running, method,
                 myid, resp, ret, wire, reads, returned, toolVars>>

\* ------------------------------------------------------------ tool server
\* State of the tool server (src/manim_mcp_server.py):
\*   docker   RUNNING_IN_DOCKER          envMedia  os.environ MEDIA_DIR ("": unset)
\*   nt       os.name == 'nt'            scripts   files of the temp directory
\*   files    rendered artifacts, each [dir, job]: the file <job>.mp4 in dir
\*   cwd      working directory: 0 the original one, j the temp_work_<j> one
\*   jobs     job identifiers generated so far
\*   lastWriteScene  the last operation wrote "scene.py"
\*   path     the path argument of the next read_file / GET /output request
\*   scen0    jobs rendered right after that write, without filepath, at
\*            low_quality, the renderer exiting 0 and its artifact copied
MaxJobs == 2

DefaultScript == "ai_generated_manim_script.py"
SceneScript   == "scene.py"
Qualities == {"low_quality", "medium_quality", "high_quality", "production_quality"}

Ts(d, e, n) ==
  [docker |-> d, envMedia |-> e, nt |-> n, scripts |-> {}, files |-> {},
   cwd |-> 0, jobs |-> 0, lastWriteScene |-> FALSE, scen0 |-> {},
   path |-> <<>>]
TsIdle == Ts(FALSE, "", FALSE)

NoOut ==
  [op |-> "none", arg |-> "", head |-> "", job |-> 0, completed |-> FALSE,
   listed |-> {}, subprocs |-> <<>>, cwdIn |-> 0, cwdOut |-> 0, rc |-> -1,
   succeeded |-> FALSE, scenario |-> FALSE, status |-> 0, content |-> FALSE]

\* MEDIA_DIR, line 41, with PROJECT_ROOT of lines 23-26
MediaDir(t) ==
  IF t.envMedia # "" THEN t.envMedia
  ELSE IF t.docker THEN "/output" ELSE "ROOT/output"

\* main_output_dir of get_animation_result, lines 400-405
MainOutputDir(t) == IF t.docker THEN "/manim/output" ELSE "ROOT/output"

\* the literal message beginnings of the source that start with "Error:"
ErrorPrefixed ==
  {"Error: Filename should not include path separators",
   "Error: Failed to write file",
   "Error: File not found",
   "Error: Manim is not installed",
   "Error: Failed to create media directory",
   "Error: Unknown quality level",
   "Error: Rendering timed out",
   "Error: Path traversal attempts are not allowed",
   "Error: Access is only allowed to these base directories",
   "Error: Path is not a file"}
HasErrorPrefix(head) == head \in ErrorPrefixed

\* the message beginnings that announce a success
ReportsSuccess(head) ==
  head \in {"Successfully wrote script", "Animation rendered successfully! Job ID"}

\* lines 247-257: the quality flag, "" when the value is rejected
QualityFlagDefault(q) ==
  IF q = "medium_quality" THEN "-qm"
  ELSE IF q = "high_quality" THEN "-qh"
  ELSE IF q = "production_quality" THEN "-qk"
  ELSE "-ql"
QualityFlag(q) ==
  IF q = "low_quality" THEN "-ql"
  ELSE IF q = "medium_quality" THEN "-qm"
  ELSE IF q = "high_quality" THEN "-qh"
  ELSE IF q = "production_quality" THEN "-qk"
  ELSE ""

\* write_manim_script, lines 132-165
WriteScript(filename, ioOk) ==
  /\ LET o == [NoOut EXCEPT !.op = "write_manim_script", !.arg = filename,
                            !.cwdIn = ts.cwd, !.cwdOut = ts.cwd]
     IN
     IF filename = "dir/scene.py"       \* "/" in filename
     THEN /\ out' = [o EXCEPT !.head = "Error: Filename should not include path separators"]
          /\ ts' = [ts EXCEPT !.lastWriteScene = FALSE]
     ELSE IF ~ioOk
     THEN /\ out' = [o EXCEPT !.head = "Error: Failed to write file"]
          /\ ts' = [ts EXCEPT !.lastWriteScene = FALSE]
     ELSE /\ out' = [o EXCEPT !.head = "Successfully wrote script", !.succeeded = TRUE]
          /\ ts' = [ts EXCEPT !.scripts = @ \cup {filename},
                              !.lastWriteScene = (filename = SceneScript)]
  /\ UNCHANGED bridgeVars

\* render_manim_animation, lines 168-391.  fileArg: "" for no filepath, else
\* the name of a script in the temp directory; manimOk: lines 200-203;
\* setupOk: lines 207-239; run: what subprocess.run of line 279 does.
RenderResult(t, fileArg, quality, manimOk, setupOk, run, copyOk) ==
  LET script == IF fileArg = "" THEN DefaultScript ELSE fileArg
      job    == t.jobs + 1
      scen   == t.lastWriteScene /\ fileArg = "" /\ quality = "low_quality"
      o0     == [NoOut EXCEPT !.op = "render_manim_animation", !.arg = quality,
                              !.cwdIn = t.cwd, !.cwdOut = t.cwd, !.scenario = scen]
      t0     == [t EXCEPT !.lastWriteScene = FALSE]
      t1     == [t0 EXCEPT !.jobs = job]
      o1     == [o0 EXCEPT !.subprocs = <<"import manim">>]
      o2     == IF t.nt THEN [o1 EXCEPT !.subprocs = Append(@, "mklink")] ELSE o1
      o3     == [o2 EXCEPT !.subprocs = Append(@, "manim " \o QualityFlag(quality))]
      rc     == IF run = "exit1" THEN 1 ELSE 0
      made   == run = "exit0_file"
      fs     == IF made THEN t.files \cup {[dir |-> MediaDir(t), job |-> job]} ELSE t.files
  IN
  IF script \notin t.scripts
  THEN [ts |-> t0, out |-> [o0 EXCEPT !.head = "Error: File not found"]]
  ELSE IF ~manimOk
  THEN [ts |-> t1, out |-> [o1 EXCEPT !.head = "Error: Manim is not installed"]]
  ELSE IF ~setupOk
  THEN [ts |-> t1, out |-> [o1 EXCEPT !.head = "Error: Failed to create media directory"]]
  ELSE IF QualityFlag(quality) = ""
  THEN [ts |-> t1, out |-> [o2 EXCEPT !.head = "Error: Unknown quality level"]]
  ELSE IF run = "timeout"
  THEN [ts |-> [t1 EXCEPT !.cwd = job],
        out |-> [o3 EXCEPT !.head = "Error: Rendering timed out", !.cwdOut = job]]
  ELSE IF run = "oserror"
  THEN [ts |-> [t1 EXCEPT !.cwd = job],
        out |-> [o3 EXCEPT !.head = "Unexpected error during rendering", !.cwdOut = job]]
  ELSE IF made /\ ~copyOk
  THEN [ts |-> t1, out |-> [o3 EXCEPT !.head = "Error copying rendered file", !.rc = rc]]
  ELSE [ts |-> [t1 EXCEPT !.files = fs,
                          !.scen0 = IF scen /\ made THEN @ \cup {job} ELSE @],
        out |-> [o3 EXCEPT !.head = "Animation rendered successfully! Job ID",
                           !.job = job, !.rc = rc, !.completed = (rc = 0),
                           !.succeeded = (rc = 0),
                           !.listed = {f \in fs : f.dir = MediaDir(t) /\ f.job = job}]]

Render(fileArg, quality, manimOk, setupOk, run, copyOk) ==
  /\ ts.jobs < MaxJobs
  /\ LET r == RenderResult(ts, fileArg, quality, manimOk, setupOk, run, copyOk) IN
     /\ ts' = r.ts
     /\ out' = r.out
  /\ UNCHANGED bridgeVars

\* get_animation_result, lines 394-437: the files of main_output_dir whose
\* name contains the job id
GetAnimationResult(j) ==
  /\ LET found == {f \in ts.files : f.dir = MainOutputDir(ts) /\ f.job = j} IN
     out' = [NoOut EXCEPT !.op = "get_animation_result", !.job = j,
                          !.listed = found, !.succeeded = TRUE,
                          !.cwdIn = ts.cwd, !.cwdOut = ts.cwd,
                          !.head = IF found = {} THEN "No animation files found"
                                   ELSE "Animation results for job ID"]
  /\ ts' = [ts EXCEPT !.lastWriteScene = FALSE]
  /\ UNCHANGED bridgeVars

ToolInit ==
  /\ BridgeInit
  /\ ts \in {Ts(d, e, n) : d \in BOOLEAN, e \in {"", "/manim/output", "/data/media"},
                           n \in BOOLEAN}
  /\ out = NoOut

ToolNext ==
  \/ \E f \in {SceneScript, DefaultScript, "dir/scene.py"}, ioOk \in BOOLEAN :
       WriteScript(f, ioOk)
  \/ \E f \in {"", SceneScript, DefaultScript}, q \in Qualities \cup {"ultra"},
        manimOk \in BOOLEAN, setupOk \in BOOLEAN,
        run \in {"exit0_file", "exit0_nofile", "exit1", "timeout", "oserror"},
        copyOk \in BOOLEAN :
       Render(f, q, manimOk, setupOk, run, copyOk)
  \/ \E j \in 1..MaxJobs : GetAnimationResult(j)

ToolSpec == ToolInit /\ [][ToolNext]_vars

\* ------------------------------------------------------------------ paths
\* A path is the sequence of its characters, so that startswith, slicing,
\* split, os.path.join and os.path.normpath act on it as they do on a str.
MaxSegs == 3

Sl       == <<"/">>
DotDot   == <<".", ".">>
RootDir  == <<"/", "s", "r", "v", "/", "m", "a", "n", "i", "m", "-", "m", "c", "p">>            \* PROJECT_ROOT outside Docker: an absolute path
S_manim  == <<"m", "a", "n", "i", "m">>
S_temp   == <<"t", "e", "m", "p">>
S_output == <<"o", "u", "t", "p", "u", "t">>
S_tmp    == <<"t", "m", "p">>
S_tmpx   == <<"t", "m", "p", "x">>
S_etc    == <<"e", "t", "c">>
S_x      == <<"x">>
S_video  == <<"v", ".", "m", "p", "4">>

StartsWith(str, pre) == Len(str) >= Len(pre) /\ SubSeq(str, 1, Len(pre)) = pre
EndsWith(str, suf) ==
  Len(str) >= Len(suf) /\ SubSeq(str, Len(str) - Len(suf) + 1, Len(str)) = suf
\* str[n:]
Drop(str, n) == IF n >= Len(str) THEN <<>> ELSE SubSeq(str, n + 1, Len(str))

\* str.split("/")
RECURSIVE Split(_)
Split(str) ==
  IF \A i \in DOMAIN str : str[i] # "/"
  THEN <<str>>
  ELSE LET i == CHOOSE i \in DOMAIN str :
                  str[i] = "/" /\ \A j \in 1..(i - 1) : str[j] # "/"
       IN <<SubSeq(str, 1, i - 1)>> \o Split(Drop(str, i))

\* "/".join(segs)
RECURSIVE JoinSegs(_)
JoinSegs(segs) ==
  IF segs = <<>> THEN <<>>
  ELSE IF Len(segs) = 1 THEN segs[1]
  ELSE segs[1] \o Sl \o JoinSegs(Tail(segs))

\* os.path.join(a, b) of posixpath
PathJoin(a, b) ==
  IF b # <<>> /\ b[1] = "/" THEN b
  ELSE IF a = <<>> \/ a[Len(a)] = "/" THEN a \o b
  ELSE a \o Sl \o b

\* str.lstrip('/')
RECURSIVE LStrip(_)
LStrip(str) == IF str # <<>> /\ str[1] = "/" THEN LStrip(Tail(str)) ELSE str

\* the loop of posixpath.normpath over the components
RECURSIVE NormComps(_, _, _)
NormComps(comps, new, slashes) ==
  IF comps = <<>> THEN new
  ELSE LET c == Head(comps) IN
       IF c = <<>> \/ c = <<".">> THEN NormComps(Tail(comps), new, slashes)
       ELSE IF c # DotDot \/ (slashes = 0 /\ new = <<>>)
                 \/ (new # <<>> /\ new[Len(new)] = DotDot)
       THEN NormComps(Tail(comps), Append(new, c), slashes)
       ELSE IF new # <<>>
       THEN NormComps(Tail(comps), SubSeq(new, 1, Len(new) - 1), slashes)
       ELSE NormComps(Tail(comps), new, slashes)

\* os.path.normpath of posixpath
Normpath(str) ==
  IF str = <<>> THEN <<".">>
  ELSE LET slashes == IF ~StartsWith(str, Sl) THEN 0
                      ELSE IF StartsWith(str, Sl \o Sl) /\ ~StartsWith(str, Sl \o Sl \o Sl)
                      THEN 2 ELSE 1
           body == JoinSegs(NormComps(Split(str), <<>>, slashes))
           res  == (IF slashes = 2 THEN Sl \o Sl ELSE IF slashes = 1 THEN Sl ELSE <<>>) \o body
       IN IF res = <<>> THEN <<".">> ELSE res

\* PROJECT_ROOT, lines 23-26, and ALLOWED_BASE_DIRS, lines 29-38
ProjectRoot(docker) == IF docker THEN Sl ELSE RootDir
AllowedBaseDirs(docker) ==
  IF docker
  THEN {<<"/", "m", "a", "n", "i", "m">>, <<"/", "a", "p", "p">>, <<"/", "m", "e", "d", "i", "a">>, <<"/", "u", "s", "r", "/", "l", "o", "c", "a", "l">>, <<"/", "t", "m", "p">>}
  ELSE {RootDir, PathJoin(RootDir, S_temp), PathJoin(RootDir, S_output),
        PathJoin(RootDir, <<"a", "n", "i", "m", "a", "t", "i", "o", "n", "s">>), <<"/", "t", "m", "p">>}

\* adjust_path, lines 50-65
AdjustPath(docker, path) ==
  IF ~docker /\ StartsWith(path, Sl)
  THEN IF StartsWith(path, <<"/", "m", "a", "n", "i", "m", "/", "t", "e", "m", "p">>)
       THEN PathJoin(PathJoin(RootDir, S_temp), Drop(path, 12))
       ELSE IF StartsWith(path, <<"/", "m", "a", "n", "i", "m", "/", "o", "u", "t", "p", "u", "t">>)
       THEN PathJoin(PathJoin(RootDir, S_output), Drop(path, 13))
       ELSE IF StartsWith(path, <<"/", "m", "a", "n", "i", "m">>)
       THEN PathJoin(RootDir, Drop(path, 7))
       ELSE IF StartsWith(path, <<"/", "t", "e", "m", "p", "/">>)
       THEN PathJoin(PathJoin(RootDir, S_temp), Drop(path, 6))
       ELSE IF StartsWith(path, <<"/", "o", "u", "t", "p", "u", "t", "/">>)
       THEN PathJoin(PathJoin(RootDir, S_output), Drop(path, 8))
       ELSE path
  ELSE path

\* line 449: ".." in filepath.split(os.sep)
HasDotDotSegment(path) == \E i \in DOMAIN Split(path) : Split(path)[i] = DotDot

\* line 453: filepath == base or filepath.startswith(f"{base}{os.sep}")
UnderBaseNoSep(path, base) == path = base \/ StartsWith(path, base)
UnderBase(path, base) == path = base \/ StartsWith(path, base \o Sl)

\* read_file, lines 440-474.  exists / isFile / ioOk: what the file system
\* answers for the adjusted path.
ReadFileResult(docker, path, exists, isFile, ioOk) ==
  LET filepath == AdjustPath(docker, path)
      o == [NoOut EXCEPT !.op = "read_file", !.arg = path]
  IN
  IF HasDotDotSegment(filepath)
  THEN [o EXCEPT !.head = "Error: Path traversal attempts are not allowed"]
  ELSE IF ~\E base \in AllowedBaseDirs(docker) : UnderBase(filepath, base)
  THEN [o EXCEPT !.head = "Error: Access is only allowed to these base directories"]
  ELSE IF ~exists
  THEN [o EXCEPT !.head = "Error: File not found"]
  ELSE IF ~isFile
  THEN [o EXCEPT !.head = "Error: Path is not a file"]
  ELSE IF ~ioOk
  THEN [o EXCEPT !.head = "Error reading file"]
  ELSE [o EXCEPT !.head = "File:", !.content = TRUE, !.succeeded = TRUE]

ReadFile(exists, isFile, ioOk) ==
  /\ out' = ReadFileResult(ts.docker, ts.path, exists, isFile, ioOk)
  /\ UNCHANGED <<ts, bridgeVars>>

\* The bridge's output directory, relative to its working directory, and
\* the regular files in it.
BridgeCwd   == RootDir
OutputFiles ==
  {PathJoin(S_output, S_video), PathJoin(PathJoin(S_output, S_tmp), S_video),
   PathJoin(S_output, S_x)}
\* os.path.abspath("output")
AbsOutput == PathJoin(BridgeCwd, S_output)

\* serve_output_file, src/mcp_bridge.py lines 129-167: the HTTP status
ServeStatus(file_path) ==
  LET fp   == LStrip(Normpath(file_path))
      full == PathJoin(S_output, fp)
  IN IF ~StartsWith(full, AbsOutput) THEN 403
     ELSE IF full \notin OutputFiles THEN 404
     ELSE 200

ServeOutputFile ==
  /\ out' = [NoOut EXCEPT !.op = "serve_output_file", !.arg = ts.path,
                          !.status = ServeStatus(ts.path),
                          !.succeeded = (ServeStatus(ts.path) = 200)]
  /\ UNCHANGED <<ts, bridgeVars>>

\* list_available_videos, src/mcp_bridge.py lines 184-207: the relative
\* paths behind the output_url of every listed file
ListAvailableVideos ==
  /\ out' = [NoOut EXCEPT !.op = "list_available_videos", !.status = 200,
                          !.succeeded = TRUE,
                          !.listed = {Drop(f, Len(S_output) + 1) : f \in
                                        {g \in OutputFiles : EndsWith(g, <<".", "m", "p", "4">>)
                                                             \/ EndsWith(g, <<".", "p", "n", "g">>)
                                                             \/ EndsWith(g, <<".", "g", "i", "f">>)}}]
  /\ UNCHANGED <<ts, bridgeVars>>

\* the request paths tried: up to MaxSegs segments, absolute or relative
Segments == {S_manim, S_temp, S_output, S_tmp, S_tmpx, S_etc, S_x, S_video, DotDot, <<>>}
SegSeqs  == UNION {[1..n -> Segments] : n \in 1..MaxSegs}
Paths    == {(IF lead THEN Sl ELSE <<>>) \o JoinSegs(segs) :
               lead \in BOOLEAN, segs \in SegSeqs}

PathInit ==
  /\ BridgeInit
  /\ ts \in {[Ts(d, "", FALSE) EXCEPT !.path = p] : d \in BOOLEAN, p \in Paths}
  /\ out = NoOut

PathNext ==
  \/ \E exists \in BOOLEAN, isFile \in BOOLEAN, ioOk \in BOOLEAN :
       ReadFile(exists, isFile, ioOk)
  \/ ServeOutputFile
  \/ ListAvailableVideos

PathSpec == PathInit /\ [][PathNext]_vars


Init ==
  /\ BridgeInit
  /\ ts = TsIdle
  /\ out = NoOut

Next ==
  \/ ShutdownTerminate
  \/ ShutdownWait
  \/ \E c \in Callers, m \in Methods : Begin(c, m)
  \/ \E c \in Callers, ok \in BOOLEAN : Popen(c, ok)
  \/ \E c \in Callers : InitWrite(c)
  \/ \E c \in Callers : InitRead(c)
  \/ \E c \in Callers : NotifWrite(c)
  \/ \E c \in Callers : SendRequest(c)
  \/ \E c \in Callers : ReadResponse(c)
  \/ \E k \in Children, r \in BOOLEAN : ChildServe(k, r)
  \/ \E k \in Children, line \in StrayLines : ChildStray(k, line)
  \/ \E k \in Children : ChildHang(k)
  \/ \E k \in Children, e \in 0..1 : ChildExit(k, e)

Spec == Init /\ [][Next]_vars


\* ================================================================= claims
IsCall(w) == w.method \in Methods /\ w.delivered
Pos(seq, x) == CHOOSE i \in DOMAIN seq : seq[i] = x
Handle == procs[mcp_process]

\* C1: writing a request line and reading its response line form one
\* critical section: while a caller is between its write and its read, no
\* write on a child's stdin and no read of a child's stdout happens, and at
\* most one caller is between its write and its read.
C1_OneCallInFlight ==
  /\ [](Cardinality({c \in Callers : pc[c] \in {"init_read", "read"}}) <= 1)
  /\ [][\A c \in Callers :
          (pc[c] = "read" /\ pc'[c] = "read") => (wire' = wire /\ reads' = reads)]_vars

\* a caller waits for its response line while another invocation is pending
C1_Witness ==
  \E c, d \in Callers :
    /\ pc[c] = "read" /\ pc[d] = "pending"
    /\ Handle.stdout = <<>>
    /\ \E i \in DOMAIN wire : wire[i].caller = c /\ IsCall(wire[i])

\* C2: calls return in the order in which their request lines were written:
\* if A's request is written before B's and B's call has returned, A's call
\* returned before it.
C2_ReturnInAdmissionOrder ==
  \A i, j \in DOMAIN wire :
    (i < j /\ IsCall(wire[i]) /\ IsCall(wire[j]) /\ pc[wire[j].caller] = "done")
      => /\ pc[wire[i].caller] = "done"
         /\ Pos(returned, wire[i].caller) < Pos(returned, wire[j].caller)

\* two calls both wrote their request line and both returned
C2_Witness ==
  \E i, j \in DOMAIN wire :
    /\ i < j /\ IsCall(wire[i]) /\ IsCall(wire[j])
    /\ pc[wire[i].caller] = "done" /\ pc[wire[j].caller] = "done"
    /\ ret[wire[j].caller].kind = "json"

\* C3: a returned envelope that carries an id carries the id of the request
\* line its caller wrote.
C3_ResponseIsOwn ==
  \A c \in Callers :
    (pc[c] = "done" /\ ret[c].kind = "json" /\ ret[c].line.id # 0)
      => ret[c].line.id = myid[c]

\* C4: no tools/list or tools/call request line is written to a child whose
\* handshake has not completed (initialize sent, a JSON line with `result`
\* read, notifications/initialized sent).
C4_HandshakeBeforeCalls ==
  \A i \in DOMAIN wire : IsCall(wire[i]) => wire[i].ready

\* C5: after a failed handshake the handle is discarded: between calls, a
\* held handle is a handle whose handshake completed, so the next call
\* spawns afresh.
C5_FailedHandshakeDiscardsHandle ==
  (running = None /\ mcp_process # None) => Handle.handshook

\* C6: at most one child process exists at a time: a child is spawned only
\* when no handle is held and no earlier child is still running.
C6_AtMostOneChild ==
  /\ Cardinality(Live) <= 1
  /\ \A k \in Children : procs[k].heldAtSpawn = None /\ procs[k].liveAtSpawn = 0

\* a call's start-up failed with the child still running, and a later call
\* ran to its end
C6_Witness ==
  \E c, d \in Callers :
    /\ c # d /\ ret[c] = StartFailed /\ pc[d] = "done"
    /\ Pos(returned, c) < Pos(returned, d)
    /\ Live # {}

\* C7: a child that never answers cannot hang a caller: no call waits for
\* its response line on a child that has stopped writing for good.
C7_SilentChildTimesOut ==
  \A c \in Callers :
    ~(pc[c] = "read" /\ Handle.status = "hung" /\ Handle.stdout = <<>>)

\* C8: after a call failed with a transport error no later write is
\* attempted on the failed handle.
C8_FreshChildAfterTransportError ==
  \A i \in DOMAIN wire : ~wire[i].afterFail

\* C9: no two request lines written to the same child carry the same id,
\* the initialize request included.
C9_IdsUniquePerChild ==
  \A i, j \in DOMAIN wire :
    (i < j /\ wire[i].child = wire[j].child /\ wire[i].delivered /\ wire[j].delivered
       /\ wire[i].id # 0 /\ wire[j].id # 0)
      => wire[i].id # wire[j].id

\* C10: a read that yields end-of-stream or an empty line is reported as a
\* transport failure: the stderr diagnostic or the no-response error.
C10_EmptyReadIsTransportFailure ==
  \A c \in Callers :
    (pc[c] = "done" /\ resp[c].kind \in {"eof", "blank"})
      => ret[c] \in {StderrError, NoResponse}


CallEntries(c) == {i \in DOMAIN wire : wire[i].caller = c /\ wire[i].method \in Methods}
InitEntries(c) == {i \in DOMAIN wire : wire[i].caller = c /\ wire[i].method = "initialize"}
CallReads(c)   == {i \in DOMAIN reads : reads[i].caller = c /\ reads[i].op = "call"}
PastStart(c)   == pc[c] = "read" \/ (pc[c] = "done" /\ ret[c] # StartFailed)
SpawnFailed(c) == pc[c] = "done" /\ ret[c] = StartFailed /\ InitEntries(c) = {}

\* C11: an invocation that gets past start-up writes its request line
\* exactly once and reads at most one response line (exactly one when it
\* returns a parsed response); it never sends again and never spawns a child
\* after its request, on the success path and on every failure path.
C11_OneRequestOneRead ==
  \A c \in Callers :
    /\ Cardinality(CallEntries(c)) <= 1
    /\ Cardinality(CallReads(c)) <= 1
    /\ Cardinality(InitEntries(c)) <= 1
    /\ PastStart(c) => Cardinality(CallEntries(c)) = 1
    /\ (pc[c] = "done" /\ ret[c].kind = "json") => Cardinality(CallReads(c)) = 1
    /\ \A i \in CallEntries(c), j \in InitEntries(c) : j < i

\* an invocation ended on the empty-read failure path, one request written
C11_Witness ==
  \E c \in Callers :
    /\ pc[c] = "done" /\ ret[c] \in {NoResponse, StderrError}
    /\ Cardinality(CallEntries(c)) = 1 /\ Cardinality(CallReads(c)) = 1

\* C12: a call whose Popen fails leaves no handle cached, returns the
\* start-up error, writes no line and consumes no request id (ids are
\* consumed only by request lines); a call that finds no handle spawns.
C12_SpawnFailureLeavesNothing ==
  /\ [](\A c \in Callers :
          SpawnFailed(c) => (myid[c] = 0 /\ \A i \in DOMAIN wire : wire[i].caller # c))
  /\ [](request_id_counter = Cardinality({i \in DOMAIN wire : wire[i].method \in Methods}))
  /\ [][\A c \in Callers :
          (pc[c] = "popen" /\ pc'[c] = "done")
            => /\ mcp_process' = None /\ procs' = procs /\ wire' = wire
               /\ request_id_counter' = request_id_counter
               /\ ret'[c] = StartFailed]_vars
  /\ [][\A d \in Callers :
          (pc[d] = "pending" /\ pc'[d] # "pending" /\ mcp_process = None)
            => pc'[d] = "popen"]_vars

\* a call's spawn failed and the next call spawned a child
C12_Witness ==
  \E c, d \in Callers : SpawnFailed(c) /\ InitEntries(d) # {}

\* C13: once shutdown has completed, every child the bridge spawned was
\* sent the terminate signal and has exited.
C13_ShutdownLeavesNoChild ==
  lifespan = "stopped"
    => \A k \in Children : procs[k].status = "exited" /\ procs[k].signalled

\* shutdown completed after a call whose handshake failed on a spawned child
C13_Witness ==
  /\ lifespan = "stopped"
  /\ Children # {}
  /\ \E c \in Callers : ret[c] = StartFailed /\ InitEntries(c) # {}


\* C14: a render made right after writing "scene.py", without filepath and
\* at low_quality, whose renderer exits 0, answers with a new job identifier
\* and "Rendering completed successfully", and get_animation_result for that
\* job lists a file whose name embeds it, for every media directory setting
\* (stated for the runs in which copying the artifact does not fail).
C14_ScenarioListsArtifact ==
  /\ (out.op = "render_manim_animation" /\ out.scenario /\ out.rc = 0
        /\ out.head # "Error copying rendered file")
       => (out.completed /\ out.job = ts.jobs /\ out.job # 0)
  /\ (out.op = "get_animation_result" /\ out.job \in ts.scen0)
       => \E f \in out.listed : f.job = out.job

\* C15: a render with a quality outside the four values answers an error
\* and invokes no subprocess.
C15_UnknownQualityNoSubprocess ==
  (out.op = "render_manim_animation" /\ out.arg \notin Qualities)
    => (HasErrorPrefix(out.head) /\ out.subprocs = <<>>)

\* C15 (amended): a render with a quality outside the four values answers an
\* `Error:` message, generates no artifact and never invokes the rendering
\* subprocess; only the Manim-installation check (and mklink on Windows)
\* may have run.
C15_UnknownQualityNoRender ==
  (out.op = "render_manim_animation" /\ out.arg \notin Qualities)
    => /\ HasErrorPrefix(out.head)
       /\ out.listed = {} /\ out.rc = -1
       /\ \A i \in DOMAIN out.subprocs : out.subprocs[i] \in {"import manim", "mklink"}

\* an unknown quality reached the quality check and was rejected there
C15_Witness ==
  /\ out.op = "render_manim_animation" /\ out.arg \notin Qualities
  /\ out.head = "Error: Unknown quality level"
  /\ out.subprocs # <<>>

\* C17: every failure outcome is a message prefixed with `Error:`, and a
\* message that reports success is returned only when the operation
\* succeeded.
C17_FailuresAreErrorPrefixed ==
  out.op # "none"
    => /\ ~out.succeeded => HasErrorPrefix(out.head)
       /\ ReportsSuccess(out.head) => out.succeeded

\* C19: render_manim_animation returns with the working directory it was
\* entered with, so the working directory never changes.
C19_RenderKeepsCwd ==
  /\ out.op = "render_manim_animation" => out.cwdOut = out.cwdIn
  /\ ts.cwd = 0


\* the directory a path denotes, as the list of its components: relative
\* paths start at the project root, "." and ".." are resolved
Resolved(docker, path) ==
  NormComps(Split(IF StartsWith(path, Sl) THEN path
                  ELSE PathJoin(ProjectRoot(docker), path)), <<>>, 1)
IsPrefix(a, b) == Len(a) <= Len(b) /\ SubSeq(b, 1, Len(a)) = a
InsideAllowed(docker, path) ==
  \E base \in AllowedBaseDirs(docker) :
    IsPrefix(Resolved(docker, base), Resolved(docker, path))

\* C16: read_file answers an error and no content for every path with a
\* `..` segment and for every path that, after adjust_path, lies outside
\* all the allowed base directories.
C16_ReadFileRejects ==
  (out.op = "read_file"
     /\ (HasDotDotSegment(out.arg)
         \/ ~InsideAllowed(ts.docker, AdjustPath(ts.docker, out.arg))))
    => (~out.content /\ HasErrorPrefix(out.head))

\* a path that adjust_path rewrote to a place outside the allow-list was
\* rejected by the allow-list check
C16_Witness ==
  /\ out.op = "read_file"
  /\ out.head = "Error: Access is only allowed to these base directories"
  /\ AdjustPath(ts.docker, out.arg) # out.arg
  /\ ~HasDotDotSegment(out.arg)

\* C18: GET /output/{path} answers 200 for every path that names an existing
\* regular file of the output directory, in particular for every output_url
\* of GET /debug/videos, and answers 403 only for a path that leaves the
\* output directory.
C18_OutputFilesServed ==
  /\ out.op = "serve_output_file"
       => /\ PathJoin(S_output, out.arg) \in OutputFiles => out.status = 200
          /\ out.status = 403
               => ~IsPrefix(<<S_output>>,
                            NormComps(Split(PathJoin(S_output, out.arg)), <<>>, 0))
  /\ out.op = "list_available_videos"
       => \A r \in out.listed : ServeStatus(r) = 200

====
